---- MODULE Spec2Model ----
(***************************************************************************)
(* Layered configuration resolution of the HTTP server:                    *)
(*   src/http_protocol/config.c  (defaults, file, environment, CLI, gate)  *)
(*   src/unnamed/part_000        (the simplified variant of the same       *)
(*                                pipeline: defaults, file, CLI)           *)
(* Strings whose characters the code inspects (port and mode candidates)   *)
(* are sequences of one-character strings; paths and page names, which the *)
(* code only copies and hands to stat(), are atomic strings.  An optional  *)
(* value (a getenv result, optarg, a libconfig lookup) is <<>> when it is  *)
(* NULL / CONFIG_FALSE and <<v>> when it is present.                       *)
(***************************************************************************)
EXTENDS Integers, Sequences, FiniteSets, TLC

VARIABLES dirs, file, env, argv, cfg, heap, optind, pc, call, results,
          stderr, stdout, lib_config, faults

vars == <<dirs, file, env, argv, cfg, heap, optind, pc, call, results,
          stderr, stdout, lib_config, faults>>

\* what a run is given: it never changes
inputs == <<dirs, file, env, argv>>

(***************************************************************************)
(* Bounds of the model.                                                    *)
(***************************************************************************)
MaxArgs == 2
MaxCalls == 2

(***************************************************************************)
(* Program constants.                                                      *)
(***************************************************************************)
MAX_PORT == 65535
DEFAULT_PORT == 80
DEFAULT_MODE == "t"
DEFAULT_ROOT_DIR == "../server_directory"
DEFAULT_INDEX_PAGE == "/index.html"
DEFAULT_NOT_FOUND_PAGE == "/404.html"
CONFIG_PATH == "../config.cfg"

(***************************************************************************)
(* unsigned long of an LP64 build: four 16-bit limbs, least significant    *)
(* first, so that 64-bit wrap-around is computed exactly.                  *)
(***************************************************************************)
LIMB == 65536
ULONG_ZERO == <<0, 0, 0, 0>>
ULONG_MAX == <<65535, 65535, 65535, 65535>>

\* v * base + d in unsigned long arithmetic, with the carry out of bit 63
MulAdd(v, base, d) ==
    LET t1 == v[1] * base + d
        t2 == v[2] * base + (t1 \div LIMB)
        t3 == v[3] * base + (t2 \div LIMB)
        t4 == v[4] * base + (t3 \div LIMB)
    IN  [val |-> <<t1 % LIMB, t2 % LIMB, t3 % LIMB, t4 % LIMB>>,
         carry |-> t4 \div LIMB]

\* 0 - v in unsigned long arithmetic (two's complement)
NegUlong(v) ==
    LET t1 == (LIMB - 1 - v[1]) + 1
        t2 == (LIMB - 1 - v[2]) + (t1 \div LIMB)
        t3 == (LIMB - 1 - v[3]) + (t2 \div LIMB)
        t4 == (LIMB - 1 - v[4]) + (t3 \div LIMB)
    IN  <<t1 % LIMB, t2 % LIMB, t3 % LIMB, t4 % LIMB>>

\* (int) of an unsigned long: the low 32 bits, read as two's complement
ToInt(v) ==
    IF v[2] >= 32768 THEN (v[2] - LIMB) * LIMB + v[1] ELSE v[2] * LIMB + v[1]

HexDigits == <<"0", "1", "2", "3", "4", "5", "6", "7", "8", "9",
               "a", "b", "c", "d", "e", "f">>
UpperHex == <<"0", "1", "2", "3", "4", "5", "6", "7", "8", "9",
              "A", "B", "C", "D", "E", "F">>

\* the value of character c as a digit, 36 when it is none
DigitVal(c) ==
    IF \E k \in 1..16 : HexDigits[k] = c
    THEN (CHOOSE k \in 1..16 : HexDigits[k] = c) - 1
    ELSE IF \E k \in 1..16 : UpperHex[k] = c
    THEN (CHOOSE k \in 1..16 : UpperHex[k] = c) - 1
    ELSE 36

isspace(c) == c \in {" ", "\t", "\n"}

CharAt(s, i) == IF i \in 1..Len(s) THEN s[i] ELSE "\\0"

RECURSIVE SkipSpace(_, _)
SkipSpace(s, i) == IF isspace(CharAt(s, i)) THEN SkipSpace(s, i + 1) ELSE i

\* the digit loop of strtoul: consumes digits below base from position i on
RECURSIVE Digits(_, _, _, _, _)
Digits(s, i, base, acc, over) ==
    IF DigitVal(CharAt(s, i)) < base
    THEN LET r == MulAdd(acc, base, DigitVal(CharAt(s, i)))
         IN  Digits(s, i + 1, base, r.val, over \/ r.carry > 0)
    ELSE [val |-> acc, end |-> i, over |-> over]

\* the result of strtoul once the digits from i2 on are converted; i1 is the
\* position after the sign
Converted(s, neg, hex, i1, i2, d) ==
    IF d.end = i2
    THEN \* no digits: "0x" alone converts the "0" and stops at the x
         IF hex THEN [val |-> ULONG_ZERO, end |-> i1 + 1]
                ELSE [val |-> ULONG_ZERO, end |-> 1]
    ELSE IF d.over THEN [val |-> ULONG_MAX, end |-> d.end]
    ELSE IF neg THEN [val |-> NegUlong(d.val), end |-> d.end]
    ELSE [val |-> d.val, end |-> d.end]

\* base 0: 0x or 0X selects base 16, another leading 0 base 8, else base 10
WithBase(s, neg, hex, i1) ==
    IF hex THEN Converted(s, neg, hex, i1, i1 + 2,
                          Digits(s, i1 + 2, 16, ULONG_ZERO, FALSE))
    ELSE IF CharAt(s, i1) = "0"
    THEN Converted(s, neg, hex, i1, i1, Digits(s, i1, 8, ULONG_ZERO, FALSE))
    ELSE Converted(s, neg, hex, i1, i1, Digits(s, i1, 10, ULONG_ZERO, FALSE))

AfterSign(s, neg, i1) ==
    WithBase(s, neg,
             CharAt(s, i1) = "0" /\ CharAt(s, i1 + 1) \in {"x", "X"}, i1)

AfterSpace(s, i0) ==
    IF CharAt(s, i0) = "-" THEN AfterSign(s, TRUE, i0 + 1)
    ELSE IF CharAt(s, i0) = "+" THEN AfterSign(s, FALSE, i0 + 1)
    ELSE AfterSign(s, FALSE, i0)

\* strtoul(s, &ptr, 0): val is the unsigned long returned, end the index ptr
\* is left at (Len(s) + 1 is the terminating NUL)
strtoul(s) == AfterSpace(s, SkipSpace(s, 1))

UpperCase == <<"A", "B", "C", "D", "E", "F", "P", "T", "X">>
LowerCase == <<"a", "b", "c", "d", "e", "f", "p", "t", "x">>

tolower(c) ==
    IF \E k \in 1..Len(UpperCase) : UpperCase[k] = c
    THEN LowerCase[CHOOSE k \in 1..Len(UpperCase) : UpperCase[k] = c]
    ELSE c


(***************************************************************************)
(* Owned text.  heap is the sequence of blocks malloc has handed out; a    *)
(* pointer is a block's index, 0 is NULL, and a negative pointer addresses *)
(* a string literal of part_000.  A block remembers the field it was       *)
(* allocated for and the call of get_config that allocated it.  A handler  *)
(* is a function of the record st = [cfg, heap, faults, crashed] it        *)
(* threads through its statements; once st.crashed the remaining           *)
(* statements do nothing.                                                  *)
(***************************************************************************)
Fields == {"port", "mode", "root_dir", "index_page", "not_found_page"}
TextFields == {"root_dir", "index_page", "not_found_page"}

NoCfg == [port |-> 0, mode |-> "?", root_dir |-> 0, index_page |-> 0,
          not_found_page |-> 0]

Opt(o) == o # <<>>

IsLive(h, p) == p \in DOMAIN h /\ h[p].live

\* outcomes of undefined behaviour: the operation traps, or it goes through
UBOutcomes == {"trap", "benign"}

Fault(st, what, ub) ==
    [st EXCEPT !.faults = @ \cup {what}, !.crashed = (ub = "trap")]

\* free(p)
free(st, p, ub) ==
    IF st.crashed THEN st
    ELSE IF p = 0 THEN st
    ELSE IF IsLive(st.heap, p) THEN [st EXCEPT !.heap[p].live = FALSE]
    ELSE Fault(st, IF p \in DOMAIN st.heap THEN "double_free"
                                            ELSE "free_not_owned", ub)

\* cfg->f = strdup(s)
strdup(st, f, s) ==
    IF st.crashed THEN st
    ELSE [st EXCEPT !.heap = Append(@, [val |-> s, live |-> TRUE, owner |-> f,
                                          rec |-> call, size |-> Len(s) + 1]),
                    !.cfg[f] = Len(st.heap) + 1]

\* free(cfg->f); cfg->f = strdup(s);
Replace(st, f, s, ub) == strdup(free(st, st.cfg[f], ub), f, s)

(***************************************************************************)
(* src/http_protocol/config.c                                              *)
(***************************************************************************)
\* faulty variant: the lower bound forgotten
is_valid_port_no_lower_bound(port) == port <= MAX_PORT

is_valid_port(port) == port >= 0 /\ port <= MAX_PORT

is_valid_mode(mode) == CharAt(mode, 1) = "p" \/ CharAt(mode, 1) = "t"

is_valid_directory(path) == path \in dirs

\* config_lookup_int / config_lookup_string on a file that was read
config_lookup(key) ==
    IF key \in DOMAIN file.settings THEN <<file.settings[key]>> ELSE <<>>

getenv(name) == IF name \in DOMAIN env THEN <<env[name]>> ELSE <<>>

\* the candidate a port string yields: the int handed to is_valid_port and
\* whether the string is non-empty and wholly consumed
\* faulty variant: the test that the parse reached the end of the string forgotten
Candidate_no_end_test(s, r) == [port |-> ToInt(r.val), whole |-> s # <<>>]

Candidate(s, r) ==
    [port |-> ToInt(r.val), whole |-> s # <<>> /\ r.end = Len(s) + 1]

PortCandidate(s) == Candidate(s, strtoul(s))

AcceptPort(st, c) ==
    IF is_valid_port(c.port) /\ c.whole
    THEN [st EXCEPT !.cfg.port = c.port] ELSE st

\* lines 142-150 and 198-207; o is the getenv result or optarg
SetPortFromString(st, o) ==
    IF Opt(o) THEN AcceptPort(st, PortCandidate(o[1])) ELSE st

\* lines 108-112; o is the config_lookup_int result
SetPortFromInt(st, o) ==
    IF Opt(o) /\ is_valid_port(o[1]) THEN [st EXCEPT !.cfg.port = o[1]] ELSE st

SetMode(st, o) ==
    IF Opt(o) /\ is_valid_mode(o[1])
    THEN [st EXCEPT !.cfg.mode = tolower(CharAt(o[1], 1))] ELSE st

SetRootDir(st, o) ==
    IF Opt(o) /\ is_valid_directory(o[1])
    THEN Replace(st, "root_dir", o[1], "trap") ELSE st

SetPage(st, f, o) == IF Opt(o) THEN Replace(st, f, o[1], "trap") ELSE st

Start == [cfg |-> cfg, heap |-> heap, faults |-> faults, crashed |-> FALSE]

SetDefaultScalars(st) ==
    [st EXCEPT !.cfg.mode = DEFAULT_MODE, !.cfg.port = DEFAULT_PORT]

DefaultBody(st) ==
    SetDefaultScalars(
        strdup(strdup(strdup(st, "root_dir", DEFAULT_ROOT_DIR),
                      "index_page", DEFAULT_INDEX_PAGE),
               "not_found_page", DEFAULT_NOT_FOUND_PAGE))

FileBody(st) ==
    SetPage(SetPage(SetRootDir(SetMode(SetPortFromInt(st,
        config_lookup("port")),
        config_lookup("mode")),
        config_lookup("root_dir")),
        "index_page", config_lookup("index_page")),
        "not_found_page", config_lookup("not_found_page"))

\* the diagnostic of a failed config_read_file: libconfig names no file and
\* line 0 when the file cannot be opened, the file and the line of a parse error
FileDiagnostic ==
    IF file.error = "io"
    THEN [file |-> "(null)", line |-> 0, text |-> "file I/O error"]
    ELSE [file |-> CONFIG_PATH, line |-> 1, text |-> "syntax error"]

EnvBody(st) ==
    SetPage(SetPage(SetRootDir(SetMode(SetPortFromString(st,
        getenv("DC_HTTP_PORT")),
        getenv("DC_HTTP_MODE")),
        getenv("DC_HTTP_ROOT_DIR")),
        "index_page", getenv("DC_HTTP_INDEX_PAGE")),
        "not_found_page", getenv("DC_HTTP_NOT_FOUND_PAGE"))

(***************************************************************************)
(* getopt_long over long_options.  An argument is [dash, name, arg]:       *)
(* --name=arg has arg = <<value>>, --name has arg = <<>>, -x has dash = 1. *)
(* long_options has no all-zero last element, so a name that matches no    *)
(* entry exactly sends getopt_long past the end of the array: the read     *)
(* either finds a null name (the option is reported as '?') or traps.      *)
(***************************************************************************)
long_options ==
    ("port" :> "p") @@ ("mode" :> "m") @@ ("root-dir" :> "r") @@
    ("index-page" :> "i") @@ ("not-found-page" :> "n")

getopt_long(a, oob) ==
    IF a.dash = 1
    THEN [opt |-> "?", optarg |-> <<>>, overread |-> FALSE]
    ELSE IF a.name \in DOMAIN long_options
    THEN [opt |-> long_options[a.name], optarg |-> a.arg, overread |-> FALSE]
    ELSE [opt |-> "?", optarg |-> <<>>, overread |-> TRUE]

\* the switch of lines 197-229 (optarg is not NULL here)
CmdCase(st, opt, optarg) ==
    CASE opt = "p" -> SetPortFromString(st, optarg)
      [] opt = "m" -> SetMode(st, optarg)
      [] opt = "r" -> SetRootDir(st, optarg)
      [] opt = "i" -> SetPage(st, "index_page", optarg)
      [] opt = "n" -> SetPage(st, "not_found_page", optarg)
      [] OTHER -> st

\* the body of the while loop of lines 192-230 for what getopt_long returned
CmdBody(st, g) ==
    IF st.crashed \/ g.optarg = <<>> THEN st ELSE CmdCase(st, g.opt, g.optarg)

Overread(st, g, oob) ==
    IF g.overread THEN Fault(st, "long_options_overread", oob) ELSE st

Advance(st, i) == [st |-> st, optind |-> IF st.crashed THEN i ELSE i + 1]

\* one iteration of the loop, on argument i
CmdStep(r, i, oob) ==
    IF r.st.crashed THEN r
    ELSE Advance(CmdBody(Overread(r.st, getopt_long(argv[i], oob), oob),
                         getopt_long(argv[i], oob)), i)

\* the loop, scanning from argument from on until getopt_long returns -1
CmdLoop(st, from, oob) ==
    LET run[i \in (from - 1)..Len(argv)] ==
            IF i = from - 1 THEN [st |-> st, optind |-> from]
            ELSE CmdStep(run[i - 1], i, oob)
    IN  run[Len(argv)]

Deref(h, p) == IF p \in DOMAIN h THEN h[p].val ELSE "(invalid)"

\* the record as a caller reads it
Values(c, h) ==
    [port |-> c.port, mode |-> c.mode,
     root_dir |-> Deref(h, c.root_dir),
     index_page |-> Deref(h, c.index_page),
     not_found_page |-> Deref(h, c.not_found_page)]

\* the effect of a stage on the program state; next is the stage that follows
Finish(st, next) ==
    /\ cfg' = st.cfg
    /\ heap' = st.heap
    /\ faults' = st.faults
    /\ pc' = IF st.crashed THEN "crashed" ELSE next

\* lines 22-23: the caller enters get_config, which allocates the record; it
\* may do so again whether or not it destroyed the record it was given
get_config ==
    /\ pc \in {"idle", "returned"}
    /\ call < MaxCalls
    /\ call' = call + 1
    /\ cfg' = NoCfg
    /\ pc' = "default"
    /\ UNCHANGED <<inputs, heap, optind, results, stderr, stdout,
                   lib_config, faults>>

set_default_config ==
    /\ pc = "default"
    /\ Finish(DefaultBody(Start), "file")
    /\ UNCHANGED <<inputs, optind, call, results, stderr, stdout, lib_config>>

\* faulty variant: a failed read resets the port
FileFailed_clears_port(st) == [st EXCEPT !.cfg.port = 0]

\* lines 100-104: the record after a failed read
FileFailed(st) == st

\* config_init ... config_destroy: the parser is released on both paths
set_file_config ==
    /\ pc = "file"
    /\ IF file.error # "none"
       THEN /\ stderr' = Append(stderr, FileDiagnostic)
            /\ Finish(FileFailed(Start), "env")
       ELSE /\ stderr' = stderr
            /\ Finish(FileBody(Start), "env")
    /\ lib_config' = "destroyed"
    /\ UNCHANGED <<inputs, optind, call, results, stdout>>

set_env_config ==
    /\ pc = "env"
    /\ Finish(EnvBody(Start), "cli")
    /\ UNCHANGED <<inputs, optind, call, results, stderr, stdout, lib_config>>

\* line 181 restarts the scan at argument 1
set_cmd_line_config ==
    /\ pc = "cli"
    /\ \E oob \in UBOutcomes :
          /\ Finish(CmdLoop(Start, 1, oob).st, "validate")
          /\ optind' = CmdLoop(Start, 1, oob).optind
    /\ UNCHANGED <<inputs, call, results, stderr, stdout, lib_config>>

\* lines 73-78, and the return of line 29 when the gate passes
validate_config ==
    /\ pc = "validate"
    /\ IF is_valid_directory(Deref(heap, cfg.root_dir))
       THEN /\ pc' = "returned"
            /\ results' = Append(results, Values(cfg, heap))
            /\ stderr' = stderr
       ELSE /\ pc' = "exited"
            /\ results' = results
            /\ stderr' = Append(stderr,
                   [text |-> "Root directory does not exist.",
                    path |-> Deref(heap, cfg.root_dir)])
    /\ UNCHANGED <<inputs, cfg, heap, optind, call, stdout, lib_config,
                   faults>>

DestroyBody(st, ub) ==
    free(free(free(st, st.cfg.root_dir, ub), st.cfg.not_found_page, ub),
         st.cfg.index_page, ub)

Destroyed(st) ==
    /\ heap' = st.heap
    /\ faults' = st.faults
    /\ cfg' = NoCfg
    /\ pc' = IF st.crashed THEN "crashed" ELSE "idle"

destroy_config ==
    /\ pc = "returned"
    /\ Destroyed(DestroyBody(Start, "trap"))
    /\ UNCHANGED <<inputs, optind, call, results, stderr, stdout, lib_config>>

(***************************************************************************)
(* src/unnamed/part_000: the simplified variant.  Its defaults are string  *)
(* literals (pointers -1 .. -4), its mode is a char *, its file loader     *)
(* copies into two-byte blocks, its CLI loader neither restarts the scan   *)
(* nor tests optarg, and get_config runs neither an environment loader nor *)
(* a validator.                                                            *)
(***************************************************************************)
LitRootDir == 0 - 1
LitIndexPage == 0 - 2
LitNotFoundPage == 0 - 3
LitMode == 0 - 4

Literal(p) ==
    CASE p = LitRootDir -> "../server_directory"
      [] p = LitIndexPage -> "/index.html"
      [] p = LitNotFoundPage -> "/404.html"
      [] p = LitMode -> "processes"
      [] OTHER -> "(invalid)"

part000_Deref(h, p) == IF p < 0 THEN Literal(p) ELSE Deref(h, p)

part000_Values(c, h) ==
    [port |-> c.port, mode |-> part000_Deref(h, c.mode),
     root_dir |-> part000_Deref(h, c.root_dir),
     index_page |-> part000_Deref(h, c.index_page),
     not_found_page |-> part000_Deref(h, c.not_found_page)]

part000_DefaultBody(st) ==
    [st EXCEPT !.cfg = [port |-> 80, mode |-> LitMode, root_dir |-> LitRootDir,
                        index_page |-> LitIndexPage,
                        not_found_page |-> LitNotFoundPage]]

\* strncpy of strlen(s) + 1 bytes into the block just allocated
Overflow(st, f, s, ub) ==
    IF Len(s) + 1 > st.heap[st.cfg[f]].size
    THEN Fault(st, "heap_overflow", ub) ELSE st

\* cfg->f = malloc(sizeof(char) + 1); strncpy(cfg->f, s, strlen(s) + 1);
part000_Copy(st, f, o, ub) ==
    IF st.crashed \/ ~Opt(o) THEN st
    ELSE Overflow([st EXCEPT
                      !.heap = Append(@, [val |-> o[1], live |-> TRUE, owner |-> f,
                                          rec |-> call, size |-> 2]),
                      !.cfg[f] = Len(st.heap) + 1],
                  f, o[1], ub)

\* line 55: config_lookup_int writes the port in place
part000_Port(st, o) == IF Opt(o) THEN [st EXCEPT !.cfg.port = o[1]] ELSE st

part000_FileBody(st, ub) ==
    part000_Copy(part000_Copy(part000_Copy(part000_Copy(part000_Port(st,
        config_lookup("port")),
        "mode", config_lookup("mode"), ub),
        "root_dir", config_lookup("directories.root"), ub),
        "index_page", config_lookup("pages.index"), ub),
        "not_found_page", config_lookup("pages.not_found"), ub)

\* a use of optarg: NULL when the option carried no value
NullCheck(st, optarg, ub) ==
    IF st.crashed \/ Opt(optarg) THEN st ELSE Fault(st, "null_deref", ub)

\* what a read of optarg yields when it goes through
Read(optarg) == IF Opt(optarg) THEN optarg[1] ELSE <<>>

part000_StorePort(st, s) ==
    IF st.crashed THEN st ELSE [st EXCEPT !.cfg.port = ToInt(strtoul(s).val)]

\* free(cfg->f); cfg->f = strdup(optarg);
part000_Replace(st, f, optarg, ub) ==
    strdup(NullCheck(free(st, st.cfg[f], ub), optarg, ub), f, Read(optarg))

\* the switch of lines 98-120
part000_CmdCase(st, opt, optarg, ub) ==
    CASE opt = "p" -> part000_StorePort(NullCheck(st, optarg, ub), Read(optarg))
      [] opt = "m" -> part000_Replace(st, "mode", optarg, ub)
      [] opt = "r" -> part000_Replace(st, "root_dir", optarg, ub)
      [] opt = "i" -> part000_Replace(st, "index_page", optarg, ub)
      [] opt = "n" -> part000_Replace(st, "not_found_page", optarg, ub)
      [] OTHER -> st

part000_CmdBody(st, g, ub) ==
    IF st.crashed THEN st ELSE part000_CmdCase(st, g.opt, g.optarg, ub)

part000_CmdStep(r, i, ub) ==
    IF r.st.crashed THEN r
    ELSE Advance(part000_CmdBody(
                     Overread(r.st, getopt_long(argv[i], ub), ub),
                     getopt_long(argv[i], ub), ub), i)

\* the loop of lines 97-121: the scan goes on from where optind stands
part000_CmdLoop(st, from, ub) ==
    LET run[i \in (from - 1)..Len(argv)] ==
            IF i = from - 1 THEN [st |-> st, optind |-> from]
            ELSE part000_CmdStep(run[i - 1], i, ub)
    IN  run[Len(argv)]

part000_DestroyBody(st, ub) ==
    free(free(free(free(st, st.cfg.root_dir, ub), st.cfg.not_found_page, ub),
              st.cfg.index_page, ub), st.cfg.mode, ub)

part000_set_default_config ==
    /\ pc = "default"
    /\ Finish(part000_DefaultBody(Start), "file")
    /\ UNCHANGED <<inputs, optind, call, results, stderr, stdout, lib_config>>

part000_set_file_config ==
    /\ pc = "file"
    /\ IF file.error # "none"
       THEN /\ stdout' = Append(stdout, FileDiagnostic)
            /\ Finish(Start, "cli")
       ELSE /\ stdout' = stdout
            /\ \E ub \in UBOutcomes : Finish(part000_FileBody(Start, ub), "cli")
    /\ lib_config' = "destroyed"
    /\ UNCHANGED <<inputs, optind, call, results, stderr>>

\* the last stage of get_config, which then returns the record (line 21)
part000_set_cmd_line_config ==
    /\ pc = "cli"
    /\ \E ub \in UBOutcomes :
          /\ Finish(part000_CmdLoop(Start, optind, ub).st, "returned")
          /\ optind' = part000_CmdLoop(Start, optind, ub).optind
          /\ results' =
               IF part000_CmdLoop(Start, optind, ub).st.crashed THEN results
               ELSE Append(results,
                           part000_Values(part000_CmdLoop(Start, optind, ub).st.cfg,
                                          part000_CmdLoop(Start, optind, ub).st.heap))
    /\ UNCHANGED <<inputs, call, stderr, stdout, lib_config>>

part000_destroy_config ==
    /\ pc = "returned"
    /\ \E ub \in UBOutcomes : Destroyed(part000_DestroyBody(Start, ub))
    /\ UNCHANGED <<inputs, optind, call, results, stderr, stdout, lib_config>>

(***************************************************************************)
(* The inputs of a run: the directories that exist, the configuration      *)
(* file, the environment and the argument vector.  They are fixed for the  *)
(* run, so that a second get_config sees what the first one saw.           *)
(***************************************************************************)
DirFile == "/srv/file"
DirEnv == "/srv/env"
DirCli == "/srv/cli"
DirMissing == "/does/not/exist"

DirStates == {{DEFAULT_ROOT_DIR, DirFile, DirEnv, DirCli},
              {DirFile, DirEnv, DirCli}}

Str80 == <<"8", "0">>
Str81 == <<"8", "1">>
Str82 == <<"8", "2">>
Str80abc == <<"8", "0", "a", "b", "c">>
StrHex50 == <<"0", "x", "5", "0">>
StrMinus1 == <<"-", "1">>
Str99999 == <<"9", "9", "9", "9", "9">>
\* 2^32 + 80
StrWrap == <<"4", "2", "9", "4", "9", "6", "7", "3", "7", "6">>
StrEmpty == <<>>

ModeStrings == {<<"p">>, <<"P">>, <<"T">>, <<"x">>}

NoSettings == [k \in {} |-> 0]

ReadFile(settings) == [error |-> "none", settings |-> settings]

FileInputs(rootKey, indexKey, notFoundKey) ==
    {[error |-> "io", settings |-> NoSettings],
     [error |-> "parse", settings |-> NoSettings],
     ReadFile(NoSettings)}
    \cup {ReadFile("port" :> p) : p \in {-1, 8080, 99999}}
    \cup {ReadFile("mode" :> m) : m \in ModeStrings}
    \cup {ReadFile(rootKey :> d) : d \in {DirFile, DirMissing}}
    \cup {ReadFile(indexKey :> "/file.html"), ReadFile(notFoundKey :> "/file404.html")}
    \cup {ReadFile((indexKey :> "/file.html") @@ ("port" :> 8080)
                   @@ ("mode" :> <<"p">>) @@ (rootKey :> DirFile))}

EnvInputs ==
    {NoSettings}
    \cup {"DC_HTTP_PORT" :> s : s \in {Str81, Str99999, StrMinus1}}
    \cup {"DC_HTTP_MODE" :> m : m \in ModeStrings}
    \cup {"DC_HTTP_ROOT_DIR" :> d : d \in {DirEnv, DirMissing}}
    \cup {"DC_HTTP_INDEX_PAGE" :> "/env.html",
          "DC_HTTP_NOT_FOUND_PAGE" :> "/env404.html"}
    \cup {("DC_HTTP_PORT" :> Str81) @@ ("DC_HTTP_MODE" :> <<"p">>)
          @@ ("DC_HTTP_ROOT_DIR" :> DirEnv)
          @@ ("DC_HTTP_INDEX_PAGE" :> "/env.html")
          @@ ("DC_HTTP_NOT_FOUND_PAGE" :> "/env404.html")}

Long(name, optarg) == [dash |-> 2, name |-> name, arg |-> optarg]

ArgsFew == {Long("port", <<Str82>>), Long("index-page", <<"/cli.html">>),
            Long("mode", <<<<"t">>>>)}

ArgsMany ==
    {Long("port", <<s>>) : s \in {Str82, Str99999}}
    \cup {Long("mode", <<m>>) : m \in {<<"p">>, <<"P">>, <<"x">>}}
    \cup {Long("root-dir", <<d>>) : d \in {DirCli, DirMissing}}
    \cup {Long("index-page", <<"/cli.html">>),
          Long("not-found-page", <<"/cli404.html">>),
          Long("port", <<>>), Long("index-page", <<>>),
          Long("foo", <<>>),
          [dash |-> 1, name |-> "x", arg |-> <<>>]}

PortStrings == {Str80, Str82, Str80abc, StrHex50, StrMinus1, Str99999,
                StrWrap, StrEmpty}

UpTo(S, n) == UNION {[1..k -> S] : k \in 0..n}

\* the families of inputs: every layer in play with a short command line;
\* the command line in play; port strings in the environment and the
\* command line
Families == {"layers", "cli", "port"}

DirsOf(fam) == IF fam = "port" THEN {{DEFAULT_ROOT_DIR}} ELSE DirStates

FilesOf(fam, files) ==
    CASE fam = "layers" -> files
      [] fam = "cli" -> {ReadFile(NoSettings)}
      [] fam = "port" -> {ReadFile("port" :> 8080)}

EnvsOf(fam) ==
    CASE fam = "layers" -> EnvInputs
      [] fam = "cli" -> {NoSettings, "DC_HTTP_PORT" :> Str81}
      [] fam = "port" ->
           {NoSettings} \cup {"DC_HTTP_PORT" :> s : s \in PortStrings}

ArgsOf(fam) ==
    CASE fam = "layers" -> ArgsFew
      [] fam = "cli" -> ArgsMany
      [] fam = "port" -> {Long("port", <<s>>) : s \in PortStrings}

InitWith(files) ==
    /\ \E fam \in Families :
          /\ dirs \in DirsOf(fam)
          /\ file \in FilesOf(fam, files)
          /\ env \in EnvsOf(fam)
          /\ argv \in UpTo(ArgsOf(fam), MaxArgs)
    /\ cfg = NoCfg
    /\ heap = <<>>
    /\ optind = 1
    /\ pc = "idle"
    /\ call = 0
    /\ results = <<>>
    /\ stderr = <<>>
    /\ stdout = <<>>
    /\ lib_config = "none"
    /\ faults = {}

Init == InitWith(FileInputs("root_dir", "index_page", "not_found_page"))

Next ==
    \/ get_config
    \/ set_default_config
    \/ set_file_config
    \/ set_env_config
    \/ set_cmd_line_config
    \/ validate_config
    \/ destroy_config

Spec == Init /\ [][Next]_vars

\* the callers of part_000: the same inputs, its own key names in the file
part000_Init ==
    InitWith(FileInputs("directories.root", "pages.index", "pages.not_found"))

part000_Next ==
    \/ get_config
    \/ part000_set_default_config
    \/ part000_set_file_config
    \/ part000_set_cmd_line_config
    \/ part000_destroy_config

SpecPart000 == part000_Init /\ [][part000_Next]_vars

(***************************************************************************)
(* What the specification says of a layer's candidates.  A layer's         *)
(* candidates for a field are a sequence: empty when the layer does not    *)
(* supply the field, the values of every --option=value for the CLI.       *)
(***************************************************************************)
FileKey(f) == f

EnvName(f) ==
    CASE f = "port" -> "DC_HTTP_PORT"
      [] f = "mode" -> "DC_HTTP_MODE"
      [] f = "root_dir" -> "DC_HTTP_ROOT_DIR"
      [] f = "index_page" -> "DC_HTTP_INDEX_PAGE"
      [] f = "not_found_page" -> "DC_HTTP_NOT_FOUND_PAGE"

OptName(f) ==
    CASE f = "port" -> "port"
      [] f = "mode" -> "mode"
      [] f = "root_dir" -> "root-dir"
      [] f = "index_page" -> "index-page"
      [] f = "not_found_page" -> "not-found-page"

ArgValue(a) == a.arg[1]

CliValues(f) ==
    LET Carries(a) == a.dash = 2 /\ a.name = OptName(f) /\ a.arg # <<>>
        chosen == SelectSeq(argv, Carries)
    IN  [i \in 1..Len(chosen) |-> ArgValue(chosen[i])]

Candidates(layer, f) ==
    CASE layer = "file" ->
           IF file.error = "none" THEN config_lookup(FileKey(f)) ELSE <<>>
      [] layer = "env" -> getenv(EnvName(f))
      [] layer = "cli" -> CliValues(f)

\* the unsigned integer a wholly consumed, unsigned numeric string denotes is
\* within 0..MAX_PORT
DenotesPort(s) ==
    /\ s # <<>>
    /\ CharAt(s, SkipSpace(s, 1)) # "-"
    /\ strtoul(s).end = Len(s) + 1
    /\ strtoul(s).val[2] = 0 /\ strtoul(s).val[3] = 0 /\ strtoul(s).val[4] = 0
    /\ strtoul(s).val[1] <= MAX_PORT

\* a candidate the specification calls valid
SpecValid(layer, f, v) ==
    CASE f = "port" ->
           IF layer = "file" THEN v \in 0..MAX_PORT ELSE DenotesPort(v)
      [] f = "mode" -> CharAt(v, 1) \in {"p", "P", "t", "T"}
      [] f = "root_dir" -> v \in dirs
      [] OTHER -> TRUE

\* the value the specification has a valid candidate stored as
SpecStored(layer, f, v) ==
    CASE f = "port" -> IF layer = "file" THEN v ELSE strtoul(v).val[1]
      [] f = "mode" -> IF CharAt(v, 1) \in {"p", "P"} THEN "p" ELSE "t"
      [] OTHER -> v

ValidOnes(layer, f) ==
    LET Good(v) == SpecValid(layer, f, v)
    IN  SelectSeq(Candidates(layer, f), Good)

Supplies(layer, f) == Len(ValidOnes(layer, f)) > 0

Supplied(layer, f) ==
    SpecStored(layer, f, ValidOnes(layer, f)[Len(ValidOnes(layer, f))])

DefaultOf(f) ==
    CASE f = "port" -> DEFAULT_PORT
      [] f = "mode" -> DEFAULT_MODE
      [] f = "root_dir" -> DEFAULT_ROOT_DIR
      [] f = "index_page" -> DEFAULT_INDEX_PAGE
      [] f = "not_found_page" -> DEFAULT_NOT_FOUND_PAGE

\* Default < File < Environment < CLI
Resolved(f) ==
    IF Supplies("cli", f) THEN Supplied("cli", f)
    ELSE IF Supplies("env", f) THEN Supplied("env", f)
    ELSE IF Supplies("file", f) THEN Supplied("file", f)
    ELSE DefaultOf(f)

Layers == {"file", "env", "cli"}

\* the stage a layer's loader leaves from
StageOf(layer) == layer

UnknownLong(a) == a.dash = 2 /\ a.name \notin DOMAIN long_options

Valueless(a) == a.dash = 2 /\ a.name \in DOMAIN long_options /\ a.arg = <<>>

\* C1: get_config runs Default, File, Environment, CLI, Validate in that
\* order, and the record it returns holds, for every field, the value of the
\* highest layer that supplied a present and valid value, the built-in
\* default when none did.
C1_Precedence ==
    pc = "returned" =>
        \A f \in Fields : Values(cfg, heap)[f] = Resolved(f)

\* C2: get_config ends the process with a failure status, the offending path
\* on stderr, exactly when the final root_dir is no existing directory; in
\* every other case it returns the built record.
C2_FatalPath ==
    /\ pc = "exited" =>
          /\ ~is_valid_directory(Values(cfg, heap).root_dir)
          /\ stderr[Len(stderr)].path = Values(cfg, heap).root_dir
    /\ pc = "returned" =>
          /\ is_valid_directory(Values(cfg, heap).root_dir)
          /\ results[Len(results)] = Values(cfg, heap)
    /\ pc # "crashed"

\* C3: a layer whose candidates for port, mode or root_dir are all invalid (a
\* port outside 0..MAX_PORT, a mode not starting with p or t, a root_dir that
\* is no existing directory) leaves that field as it was, and after every
\* stage port is within 0..MAX_PORT and mode is 'p' or 't'.
PortOf(layer, v) == IF layer = "file" THEN v ELSE PortCandidate(v).port

Rejected(layer, f, v) ==
    CASE f = "port" -> PortOf(layer, v) \notin 0..MAX_PORT
      [] f = "mode" -> CharAt(v, 1) \notin {"p", "t"}
      [] f = "root_dir" -> v \notin dirs

AllRejected(layer, f) ==
    /\ Len(Candidates(layer, f)) > 0
    /\ \A i \in 1..Len(Candidates(layer, f)) :
          Rejected(layer, f, Candidates(layer, f)[i])

Built == pc \in {"file", "env", "cli", "validate", "returned", "exited"}

C4_CaseNormalization ==
    [][\A layer \in Layers :
          (pc = StageOf(layer) /\ Supplies(layer, "mode")) =>
              cfg'.mode = Supplied(layer, "mode")
      ]_vars

\* C5: the Environment and CLI loaders accept a port string only if it is
\* non-empty and wholly consumed by the parse: "80abc" and "" leave the port
\* as it was, "80" and "0x50" set it to 80, and no port string makes a loader
\* fail.
LastOf(q) == q[Len(q)]

AllDigits(s, from, base) ==
    /\ from <= Len(s)
    /\ \A i \in from..Len(s) : DigitVal(s[i]) < base

\* s is, after blanks and a sign, one numeral of base 16 (0x...), 8 (0...) or
\* 10 and nothing else
NumeralFrom(s, i) ==
    IF CharAt(s, i) = "0" /\ CharAt(s, i + 1) \in {"x", "X"}
    THEN AllDigits(s, i + 2, 16)
    ELSE IF CharAt(s, i) = "0" THEN AllDigits(s, i, 8)
    ELSE AllDigits(s, i, 10)

AfterBlanks(s, i) ==
    NumeralFrom(s, IF CharAt(s, i) \in {"+", "-"} THEN i + 1 ELSE i)

WhollyNumeral(s) == AfterBlanks(s, SkipSpace(s, 1))

C5_NumericStrictness ==
    [][\A layer \in {"env", "cli"} :
          (pc = StageOf(layer) /\ Len(Candidates(layer, "port")) > 0) =>
              /\ (\A i \in 1..Len(Candidates(layer, "port")) :
                     Candidates(layer, "port")[i] \in {Str80abc, StrEmpty})
                  => cfg'.port = cfg.port
              /\ LastOf(Candidates(layer, "port")) \in {Str80, StrHex50}
                  => cfg'.port = 80
              /\ cfg'.port # cfg.port =>
                     \E i \in 1..Len(Candidates(layer, "port")) :
                        /\ Candidates(layer, "port")[i] # <<>>
                        /\ WhollyNumeral(Candidates(layer, "port")[i])
              /\ (\A i \in 1..Len(argv) : ~UnknownLong(argv[i]))
                  => pc' # "crashed"
              /\ stderr' = stderr
      ]_vars

C5_Witness ==
    /\ pc = "validate"
    /\ getenv("DC_HTTP_PORT") = <<Str80abc>>
    /\ CliValues("port") = <<StrEmpty, StrHex50>>
    /\ cfg.port = 80

\* C6: every override of root_dir, index_page or not_found_page releases the
\* previous copy once and stores a fresh one: each field always has exactly
\* one live owned copy, no two fields share storage, no field refers to
\* released or non-owned storage, and destroy_config releases each field
\* exactly once.
LiveCopies(f) ==
    {p \in DOMAIN heap :
        heap[p].live /\ heap[p].owner = f /\ heap[p].rec = call}

C6_Ownership ==
    /\ faults \cap {"double_free", "free_not_owned", "heap_overflow"} = {}
    /\ pc \in {"file", "env", "cli", "validate", "returned", "exited"} =>
          \A f \in TextFields :
             /\ cfg[f] \in DOMAIN heap
             /\ LiveCopies(f) = {cfg[f]}
    /\ (pc = "idle" /\ call > 0) => \A f \in TextFields : LiveCopies(f) = {}

\* C7: in set_cmd_line_config a recognised option without a value, and any
\* unknown option, leave every field unchanged, and parsing continues with
\* the arguments that follow.
C7_ValuelessIgnored ==
    [][(pc = "cli" /\ Len(argv) > 0
        /\ \A i \in 1..Len(argv) : Valueless(argv[i]) \/ UnknownLong(argv[i])
                                   \/ argv[i].dash = 1)
       => /\ cfg' = cfg
          /\ heap' = heap
          /\ pc' \notin {"crashed", "cli"}
      ]_vars

\* C8: two calls of get_config in one process with the same file,
\* environment, directories and arguments return records equal field for
\* field.
C8_Idempotence == Len(results) >= 2 => results[2] = results[1]

\* C9: when the configuration file is missing or malformed, set_file_config
\* writes one diagnostic <file>:<line> - <message>, releases the parser and
\* returns with the record as it was; resolution goes on with the
\* Environment loader.
C9_FileFailure ==
    [][(pc = "file" /\ file.error # "none") =>
          /\ Len(stderr') = Len(stderr) + 1
          /\ DOMAIN stderr'[Len(stderr')] = {"file", "line", "text"}
          /\ stderr'[Len(stderr')].line \in Nat
          /\ lib_config' = "destroyed"
          /\ cfg' = cfg
          /\ heap' = heap
          /\ pc' = "env"
      ]_vars

C9_Witness ==
    /\ pc = "validate"
    /\ file.error = "io"
    /\ Len(stderr) = 1
    /\ getenv("DC_HTTP_INDEX_PAGE") = <<"/env.html">>
    /\ Values(cfg, heap).index_page = "/cli.html"

\* C10: the Environment and CLI loaders accept a port string only if the
\* unsigned integer it denotes is itself within 0..MAX_PORT: a string that
\* denotes more than MAX_PORT, or a negative-signed one, never changes the
\* port.
C10_RangeOnParsedValue ==
    [][\A layer \in {"env", "cli"} :
          (pc = StageOf(layer) /\ ~Supplies(layer, "port")) =>
              cfg'.port = cfg.port
      ]_vars

(***************************************************************************)
(* What config.c keeps of the claims it breaks, under Spec: apart from     *)
(* the upper-case modes, the port strings that wrap and the unknown        *)
(* long options, its record is the one the layers resolve to and a run     *)
(* ends by an exit or a return.  C6_Ownership and C8_Idempotence hold      *)
(* under Spec as they stand.                                               *)
(***************************************************************************)
Accepted(layer, f, v) ==
    CASE f = "port" ->
           IF layer = "file" THEN is_valid_port(v)
           ELSE is_valid_port(PortCandidate(v).port) /\ PortCandidate(v).whole
      [] f = "mode" -> is_valid_mode(v)
      [] f = "root_dir" -> is_valid_directory(v)
      [] OTHER -> TRUE

\* the code accepts exactly the candidates the specification calls valid
CodeAgrees ==
    \A layer \in Layers : \A f \in Fields :
       \A i \in 1..Len(Candidates(layer, f)) :
          Accepted(layer, f, Candidates(layer, f)[i])
              <=> SpecValid(layer, f, Candidates(layer, f)[i])

Precedence_config_c ==
    (pc = "returned" /\ CodeAgrees) =>
        \A f \in Fields : Values(cfg, heap)[f] = Resolved(f)

FatalPath_config_c ==
    /\ pc = "exited" =>
          /\ ~is_valid_directory(Values(cfg, heap).root_dir)
          /\ stderr[Len(stderr)].path = Values(cfg, heap).root_dir
    /\ pc = "returned" =>
          /\ is_valid_directory(Values(cfg, heap).root_dir)
          /\ results[Len(results)] = Values(cfg, heap)
    /\ pc = "crashed" => \E i \in 1..Len(argv) : UnknownLong(argv[i])

ValuelessIgnored_config_c ==
    [][(pc = "cli" /\ Len(argv) > 0
        /\ \A i \in 1..Len(argv) : Valueless(argv[i]) \/ argv[i].dash = 1)
       => /\ cfg' = cfg
          /\ heap' = heap
          /\ pc' = "validate"
      ]_vars

====
